---- MODULE Spec2Model ----
(***************************************************************************)
(* AIPA (src/src/main.rs): the attempt/retry loop of AIPA::process_task,   *)
(* the per-language build-and-run pipeline AIPA::execute_code, the         *)
(* interactive repair reader AIPA::prompt_for_fix, AIPA::cleanup and main. *)
(*                                                                         *)
(* Strings are sequences of one-character strings wherever the code looks  *)
(* inside them (trim, starts_with, replace); opaque fragments (template    *)
(* pieces, captured stdout/stderr) are single elements of such sequences.  *)
(* The toolchain subprocesses, stdin and the operating system's file       *)
(* operations are the environment: their results are chosen with \E.       *)
(***************************************************************************)
EXTENDS Integers, Sequences, FiniteSets, TLC

\* ---------------------------------------------------------------- bounds
MaxLines == 2      \* lines delivered on stdin to one prompt_for_fix call

\* ------------------------------------------------------- program constants
MAX_ATTEMPTS_Four == 3 + 1
MAX_ATTEMPTS == 3

\* ------------------------------------------------------------ str helpers
WS == {" ", "\n", "\t", "\r"}

RECURSIVE TrimStart(_)
TrimStart(s) ==
    IF s = <<>> THEN s
    ELSE IF Head(s) \in WS THEN TrimStart(Tail(s)) ELSE s

RECURSIVE TrimEnd(_)
TrimEnd(s) ==
    IF s = <<>> THEN s
    ELSE IF s[Len(s)] \in WS THEN TrimEnd(SubSeq(s, 1, Len(s) - 1)) ELSE s

Trim(s) == TrimEnd(TrimStart(s))

StartsWith(s, p) == Len(s) >= Len(p) /\ SubSeq(s, 1, Len(p)) = p

RECURSIVE TrimStartMatches(_, _)
TrimStartMatches(s, p) ==
    IF p # <<>> /\ StartsWith(s, p)
    THEN TrimStartMatches(SubSeq(s, Len(p) + 1, Len(s)), p)
    ELSE s

RECURSIVE Replace(_, _, _)
Replace(s, from, to) ==
    IF s = <<>> THEN <<>>
    ELSE <<(IF Head(s) = from THEN to ELSE Head(s))>> \o Replace(Tail(s), from, to)

\* ------------------------------------------------------------------ Task
Languages == {"rust", "python", "cpp", "java", "cobol"}
Supported == {"rust", "python", "cpp", "java"}
Native == {"rust", "cpp"}

GoalX == <<"x">>
GoalPrintHello == <<"p","r","i","n","t"," ","h","e","l","l","o">>
Goals == {GoalX, GoalPrintHello}

\* ------------------------------------------------------- Source Provider
generate_code(lang, g) ==
    CASE lang = "rust" ->
           <<"fn main() { println!(\"AIPA: ">> \o g \o <<" completed\"); }">>
      [] lang = "python" ->
           <<"print('AIPA: ">> \o g \o <<" completed')">>
      [] lang = "cpp" ->
           <<"#include <iostream>\nint main() {\n    std::cout << \"AIPA: ">>
             \o g \o <<" completed\" << std::endl;\n    return 0;\n}">>
      [] lang = "java" ->
           <<"public class project_print_hello {\n    public static void main(String[] args) {\n        System.out.println(\"AIPA: ">>
             \o g \o <<" completed\");\n    }\n}">>
      [] OTHER -> <<"# Unsupported language: ", lang>>

\* ----------------------------------------------------------------- paths
\* A file of the project directory is [stem, ext]; ext "" is "no extension".
ProjectPrefix == <<"p","r","o","j","e","c","t","_">>
java_class_prefix == ProjectPrefix \o <<"p","r","i","n","t","_","h","e","l","l","o">>

get_filename(lang, g) ==
    LET ext == CASE lang = "rust" -> "rs"
                 [] lang = "python" -> "py"
                 [] lang = "cpp" -> "cpp"
                 [] lang = "java" -> "java"
                 [] OTHER -> "txt"
    IN [stem |-> ProjectPrefix \o Replace(g, " ", "_"), ext |-> ext]

WithExtension(p, e) == [p EXCEPT !.ext = e]

class_file == [stem |-> java_class_prefix, ext |-> "class"]
\* other class files javac can write for a source text: a nested class of the
\* entry class, and a class with an unrelated name
InnerClassFile == [stem |-> java_class_prefix \o <<"$","1">>, ext |-> "class"]
OtherClassFile == [stem |-> <<"F","o","o">>, ext |-> "class"]

Exists(f, p) == p \in DOMAIN f
RemoveFile(f, p) == [q \in (DOMAIN f) \ {p} |-> f[q]]
RemoveFiles(f, ps) == [q \in (DOMAIN f) \ ps |-> f[q]]
WriteFile(f, p, c) == [q \in (DOMAIN f) \cup {p} |-> IF q = p THEN c ELSE f[q]]
EmptyDir == [q \in {} |-> <<>>]

PathStr(p) == p.stem \o (IF p.ext = "" THEN <<>> ELSE <<".", p.ext>>)

\* ------------------------------------------------------- ExecutionResult
None == <<>>
Some(x) == <<x>>
ExecutionResult(s, o, e) == [success |-> s, output |-> o, error |-> e]
OkVal(v) == [ok |-> TRUE, val |-> v]
ErrVal(w) == [ok |-> FALSE, why |-> w]

\* what the subprocesses can print
StdOuts == {<<"o1">>, <<"o2">>}
StdErrs == {<<"e1">>, <<"e2">>}

\* what one call of execute_code did, besides its return value: removed a
\* stale build artifact, ran the compiler (compiled) and with what exit
\* status (compileOk) and stderr, ran the program (ran) and from which
\* artifact content, on which source text
NoLog == [removed |-> FALSE, compiled |-> FALSE, compileOk |-> FALSE, stderr |-> None,
          ran |-> FALSE, artifact |-> None, source |-> None]
Step(f, r, l) == [fs |-> f, ret |-> r, log |-> l]

\* the content of a build artifact that gets executed: the attempt whose
\* compile step wrote it; attempt 0 stands for "built from an earlier source
\* text" (Aged: the source was overwritten, or the program was started again)
Built(a) == <<"built", a>>
ClassBytes == <<"class">>
IsBuilt(c) == Len(c) = 2 /\ c[1] = "built"
Aged(f) == [q \in DOMAIN f |-> IF IsBuilt(f[q]) THEN Built(0) ELSE f[q]]

\* the outcome of a finished run subprocess (lines 242-250, 256-264, ...)
RunResults(good) ==
    {ExecutionResult(TRUE, o, None) : o \in StdOuts}
      \cup (IF good THEN {}
            ELSE {ExecutionResult(FALSE, o, Some(e)) : o \in StdOuts, e \in StdErrs})

RemoveStale_Keep(f, p) == f

\* lines 182-188, 267-273, 340-345 (the Ok path of fs::remove_file)
RemoveStale(f, p) == IF Exists(f, p) THEN RemoveFile(f, p) ELSE f

CompileFailed_Stdout(f, e, l) ==
    Step(f, OkVal(ExecutionResult(FALSE, <<>>, Some(<<"o1">>))),
         [l EXCEPT !.compiled = TRUE, !.stderr = Some(e)])

\* lines 206-212, 291-297, 361-367: the compiler exited with a failure status
\* and printed e on stderr
CompileFailed(f, e, l) ==
    Step(f, OkVal(ExecutionResult(FALSE, <<>>, Some(e))),
         [l EXCEPT !.compiled = TRUE, !.stderr = Some(e)])

MissingArtifact_Abort(f, what, p, l) == Step(f, ErrVal("not created"), l)

\* lines 224-230, 309-315, 374-380: the compiler exited with status 0 and
\* the file it should have written is not there
MissingArtifact(f, what, p, l) ==
    Step(f, OkVal(ExecutionResult(FALSE, <<>>, Some(<<what>> \o PathStr(p)))), l)

\* "rust" and "cpp" arms of execute_code.  good: the toolchain accepts the
\* source text and the program exits with status 0.
execute_native(f, filename, a, dbg, good) ==
    LET output_path == WithExtension(filename, "")
        stale == Exists(f, output_path)
        f1 == RemoveStale(f, output_path)
        l1 == [NoLog EXCEPT !.removed = stale]
        l2 == [l1 EXCEPT !.compiled = TRUE, !.compileOk = TRUE]
        art == Built(a)
    IN  (IF stale THEN {Step(f, ErrVal("remove_file"), NoLog)} ELSE {})
          \cup (IF dbg THEN {Step(f1, ErrVal("current_dir"), l1)} ELSE {})
          \cup {Step(f1, ErrVal("spawn compiler"), l1)}
          \cup (IF good THEN {} ELSE {CompileFailed(f1, e, l1) : e \in StdErrs})
          \cup UNION {
                 LET f2 == IF produced THEN WriteFile(f1, output_path, art) ELSE f1
                 IN IF ~Exists(f2, output_path)
                    THEN {MissingArtifact(f2, "Binary not created at ", output_path, l2)}
                           \cup (IF dbg THEN {Step(f2, ErrVal("current_dir"), l2)} ELSE {})
                    ELSE {Step(f2, ErrVal("canonicalize"), l2),
                          Step(f2, ErrVal("Failed to execute binary"), l2)}
                           \cup {Step(f2, OkVal(x),
                                      [l2 EXCEPT !.ran = TRUE, !.artifact = Some(f2[output_path])]) :
                                   x \in RunResults(good)}
                 : produced \in (IF good THEN {TRUE} ELSE BOOLEAN)}

\* "python" arm
execute_python(f, filename, good) ==
    LET l3 == [NoLog EXCEPT !.ran = TRUE, !.artifact = Some(f[filename])]
    IN  {Step(f, ErrVal("spawn python"), NoLog)}
          \cup {Step(f, OkVal(x), l3) : x \in RunResults(good)}

\* the sets of class files a successful javac can leave for a source text
JavacOutputs(good) ==
    IF good THEN {{class_file}}
    ELSE {{}, {class_file}, {class_file, InnerClassFile}, {OtherClassFile}}

\* javac writes the class files ps; c is the content of the entry class
WriteClasses(f, ps, c) ==
    [q \in (DOMAIN f) \cup ps |->
        IF q \in ps THEN (IF q = class_file THEN c ELSE ClassBytes) ELSE f[q]]

\* "java" arm
execute_java(f, filename, a, dbg, good) ==
    LET stale == Exists(f, class_file)
        f1 == RemoveStale(f, class_file)
        l1 == [NoLog EXCEPT !.removed = stale]
        l2 == [l1 EXCEPT !.compiled = TRUE, !.compileOk = TRUE]
        art == Built(a)
    IN  (IF stale THEN {Step(f, ErrVal("remove_file"), NoLog)} ELSE {})
          \cup (IF dbg THEN {Step(f1, ErrVal("current_dir"), l1)} ELSE {})
          \cup {Step(f1, ErrVal("spawn javac"), l1)}
          \cup (IF good THEN {} ELSE {CompileFailed(f1, e, l1) : e \in StdErrs})
          \cup UNION {
                 LET f2 == WriteClasses(f1, ps, art)
                 IN IF ~Exists(f2, class_file)
                    THEN {MissingArtifact(f2, "Class file not created at ", class_file, l2)}
                    ELSE {Step(f2, ErrVal("spawn java"), l2)}
                           \cup {Step(f2, OkVal(x),
                                      [l2 EXCEPT !.ran = TRUE, !.artifact = Some(f2[class_file])]) :
                                   x \in RunResults(good)}
                 : ps \in JavacOutputs(good)}

execute_unsupported_Abort(f) == {Step(f, ErrVal("Unsupported language"), NoLog)}

\* the `_` arm
execute_unsupported(f) ==
    {Step(f, OkVal(ExecutionResult(FALSE, <<>>, Some(<<"Unsupported language">>))), NoLog)}

execute_code_NoPython(f, lang, filename, a, dbg, good) ==
    CASE lang \in Native -> execute_native(f, filename, a, dbg, good)
      [] lang = "java" -> execute_java(f, filename, a, dbg, good)
      [] OTHER -> execute_unsupported(f)

execute_code_DefaultPython(f, lang, filename, a, dbg, good) ==
    CASE lang \in Native -> execute_native(f, filename, a, dbg, good)
      [] lang = "java" -> execute_java(f, filename, a, dbg, good)
      [] OTHER -> execute_python(f, filename, good)

\* lines 180-404: the match on task.language
execute_code(f, lang, filename, a, dbg, good) ==
    CASE lang \in Native -> execute_native(f, filename, a, dbg, good)
      [] lang = "python" -> execute_python(f, filename, good)
      [] lang = "java" -> execute_java(f, filename, a, dbg, good)
      [] OTHER -> execute_unsupported(f)

\* ---------------------------------------------------------------- cleanup
ClassFilesOf(f) ==
    {p \in DOMAIN f : StartsWith(p.stem, java_class_prefix) /\ p.ext = "class"}

\* AIPA::cleanup: every fs::remove_file and the read_dir can fail, and a
\* failure returns at once with what was removed so far.
cleanup(f, lang, g) ==
    LET source_path == get_filename(lang, g)
        binary_path == WithExtension(source_path, "")
        f1 == IF Exists(f, source_path) THEN RemoveFile(f, source_path) ELSE f
        f2 == IF Exists(f1, binary_path) THEN RemoveFile(f1, binary_path) ELSE f1
        classes == ClassFilesOf(f2)
    IN  (IF Exists(f, source_path) THEN {[fs |-> f, ret |-> ErrVal("remove source")]} ELSE {})
          \cup (IF Exists(f1, binary_path)
                THEN {[fs |-> f1, ret |-> ErrVal("remove binary")]} ELSE {})
          \cup (IF lang = "java"
                THEN {[fs |-> f2, ret |-> ErrVal("read_dir")]}
                       \cup {[fs |-> RemoveFiles(f2, done), ret |-> ErrVal("remove class")] :
                               done \in (SUBSET classes) \ {classes}}
                       \cup {[fs |-> RemoveFiles(f2, classes), ret |-> OkVal(<<>>)]}
                ELSE {[fs |-> f2, ret |-> OkVal(<<>>)]})

\* --------------------------------------------------------- prompt_for_fix
EnterPrefix == <<"E","n","t","e","r"," ","f","i","x","e","d"," ","c","o","d","e">>

\* the lines a user (or a pasted terminal transcript) can type, without
\* their line terminator
InputLines ==
    { <<>>,
      <<" ">>,
      <<">">>,
      <<">", ">">>,
      <<">", " ", "a">>,
      <<"a">>,
      EnterPrefix \o <<" ", "b">> }

EndOfFile == [kind |-> "eof", text |-> <<>>]
Line(l) == [kind |-> "line", text |-> l]

\* what stdin.read_line leaves in `line`: nothing at end of file
LineBuf(inp) == IF inp.kind = "eof" THEN <<>> ELSE inp.text \o <<"\n">>

\* history of the reader: what kind of thing read_line delivered
InputKind(inp) ==
    IF inp.kind = "eof" THEN "eof"
    ELSE IF Trim(LineBuf(inp)) = <<>> THEN "blank" ELSE "text"

LoopBreaks_NoTrim(line, fixed) == Trim(line) = <<>> /\ fixed # <<>>

\* line 111
LoopBreaks(line, fixed) == Trim(line) = <<>> /\ Trim(fixed) # <<>>

\* line 114
Accepted(trimmed_line) ==
    /\ trimmed_line # <<>>
    /\ trimmed_line # <<">">>
    /\ ~StartsWith(trimmed_line, EnterPrefix)

\* line 115
CleanLine(trimmed_line) ==
    TrimStartMatches(TrimStartMatches(trimmed_line, <<">", " ">>), <<">">>)

\* lines 114-118
Accumulate(fixed, line) ==
    IF Accepted(Trim(line)) THEN fixed \o CleanLine(Trim(line)) \o <<"\n">> ELSE fixed

\* ------------------------------------------------------------------ state
VARIABLES
    language, goal, debug,   \* Args / Task (lines 12-25)
    genGood,                 \* environment: the toolchain builds the Source Provider's text and it exits 0
    fs,                      \* files of project_dir: path -> content
    pc,                      \* position in main / process_task
    attempt,                 \* loop variable of line 55
    filename, code,          \* locals of process_task (lines 45-46)
    result,                  \* line 56
    error_msg,               \* line 62
    result_msg,              \* line 54
    fixed_code,              \* line 103
    ret,                     \* value process_task returned
    exitCode, printed,       \* what main did with it (lines 424-427)
    eof,                     \* stdin has reached end of file
    lastInput,               \* what the last read_line of this prompt delivered
    linesRead,               \* lines this prompt_for_fix call has read
    contentSeen,             \* history: a line with non-blank cleaned content was read in this prompt
    execCount, genCalls, repairCalls, cleanupCalls,  \* history: calls made in this run
    failures,                \* history: execute_code calls of this run that returned a failed outcome
    lastLog,                 \* history: what the last execute_code call did
    startText,               \* history: the artifact found at Start, if any
    fatal                    \* history: the call whose error ended process_task

vars == <<language, goal, debug, genGood, fs, pc, attempt, filename, code,
          result, error_msg, result_msg, fixed_code, ret, exitCode, printed,
          eof, lastInput, linesRead, contentSeen, execCount, genCalls,
          repairCalls, cleanupCalls, failures, lastLog, startText, fatal>>

task == <<language, goal>>
env == <<language, goal, debug, genGood>>
promptVars == <<fixed_code, lastInput, linesRead, contentSeen>>
counters == <<execCount, genCalls, repairCalls, cleanupCalls, failures>>
mainVars == <<exitCode, printed>>

NoRet == [ok |-> FALSE, why |-> "running"]
NoResult == ExecutionResult(FALSE, <<>>, None)
NoInput == "none"

Fresh ==
    /\ pc = "new"
    /\ attempt = 1
    /\ filename = get_filename(language, goal)
    /\ code = <<>>
    /\ result = NoResult
    /\ error_msg = <<>>
    /\ result_msg = <<>>
    /\ fixed_code = <<>>
    /\ ret = NoRet
    /\ exitCode = -1
    /\ printed = None
    /\ eof = FALSE
    /\ lastInput = NoInput
    /\ linesRead = 0
    /\ contentSeen = FALSE
    /\ execCount = 0 /\ genCalls = 0 /\ repairCalls = 0 /\ cleanupCalls = 0
    /\ failures = 0
    /\ lastLog = NoLog
    /\ startText = None
    /\ fatal = "none"

Init ==
    /\ language \in Languages
    /\ goal \in Goals
    /\ debug \in BOOLEAN
    /\ genGood \in BOOLEAN
    /\ fs = EmptyDir
    /\ Fresh

\* process_task returns: its locals are dropped
DropLocals ==
    /\ code' = <<>>
    /\ result' = NoResult
    /\ error_msg' = <<>>
    /\ result_msg' = <<>>
    /\ fixed_code' = <<>>
    /\ lastInput' = NoInput
    /\ linesRead' = 0
    /\ contentSeen' = FALSE

\* process_task returns Err(..) from the `?` at call site `site`
Fail(site, why) ==
    /\ ret' = ErrVal(why)
    /\ fatal' = site
    /\ pc' = "returned"
    /\ DropLocals

\* AIPA::new (lines 33-41), called from main line 417
New ==
    /\ pc = "new"
    /\ \/ /\ pc' = "start"
          /\ UNCHANGED <<mainVars, fatal>>
       \/ /\ pc' = "exited"
          /\ exitCode' = 1
          /\ fatal' = "new"
          /\ UNCHANGED printed
    /\ UNCHANGED <<env, fs, attempt, filename, code, result, error_msg,
                   result_msg, ret, eof, promptVars, counters, lastLog,
                   startText>>

NeedsGeneration_Always(f, name) == TRUE

\* line 46: is the Source Provider asked for the text
NeedsGeneration(f, name) == ~Exists(f, name)

\* process_task lines 45-52
Start ==
    /\ pc = "start"
    /\ filename' = get_filename(language, goal)
    /\ startText' = IF Exists(fs, get_filename(language, goal))
                    THEN Some(fs[get_filename(language, goal)]) ELSE None
    /\ IF NeedsGeneration(fs, filename')
       THEN LET initial_code == generate_code(language, goal)
            IN /\ genCalls' = genCalls + 1
               /\ \/ /\ fs' = WriteFile(fs, get_filename(language, goal), initial_code)
                     /\ code' = initial_code
                     /\ pc' = "exec"
                     /\ UNCHANGED <<ret, fatal, result, error_msg, result_msg, promptVars>>
                  \/ /\ Fail("save_code", "fs::write")
                     /\ UNCHANGED fs
       ELSE /\ UNCHANGED <<genCalls, fs>>
            /\ \/ /\ code' = fs[filename']
                  /\ pc' = "exec"
                  /\ UNCHANGED <<ret, fatal, result, error_msg, result_msg, promptVars>>
               \/ Fail("read_to_string", "fs::read_to_string")
    /\ attempt' = 1
    /\ UNCHANGED <<env, mainVars, eof, execCount, repairCalls, cleanupCalls,
                   failures, lastLog>>

\* does the toolchain accept the text now on disk and the program exit 0
GoodNow == genGood /\ language \in Supported /\ fs[filename] = generate_code(language, goal)

Execute_Retry ==
    /\ pc = "exec"
    /\ \E s \in execute_code(fs, language, filename, attempt, debug, GoodNow) :
         /\ fs' = s.fs
         /\ lastLog' = [s.log EXCEPT !.source = Some(fs[filename])]
         /\ result' = IF s.ret.ok THEN s.ret.val
                       ELSE ExecutionResult(FALSE, <<>>, Some(<<s.ret.why>>))
         /\ fatal' = IF s.ret.ok THEN fatal ELSE "execute_code"
         /\ pc' = "classify"
         /\ failures' = IF s.ret.ok /\ ~s.ret.val.success THEN failures + 1 ELSE failures
    /\ execCount' = execCount + 1
    /\ UNCHANGED <<env, attempt, filename, mainVars, eof, genCalls, repairCalls,
                   cleanupCalls, startText, ret, code, error_msg, result_msg,
                   promptVars>>

\* process_task line 56
Execute ==
    /\ pc = "exec"
    /\ \E s \in execute_code(fs, language, filename, attempt, debug, GoodNow) :
         /\ fs' = s.fs
         /\ lastLog' = [s.log EXCEPT !.source = Some(fs[filename])]
         /\ IF s.ret.ok
            THEN /\ result' = s.ret.val
                 /\ pc' = "classify"
                 /\ UNCHANGED <<ret, fatal, code, error_msg, result_msg, promptVars>>
            ELSE Fail("execute_code", s.ret.why)
         /\ failures' = IF s.ret.ok /\ ~s.ret.val.success THEN failures + 1 ELSE failures
    /\ execCount' = execCount + 1
    /\ UNCHANGED <<env, attempt, filename, mainVars, eof, genCalls,
                   repairCalls, cleanupCalls, startText>>

SuccessMsg_NoOutput(output) == <<"Success! Output: ">>

\* line 58
SuccessMsg(output) == <<"Success! Output: ">> \o output

ExhaustedMsg_NoDetail(n, e) == <<"Error after ", ToString(n), " attempts: ">>

\* line 66
ExhaustedMsg(n, e) == <<"Error after ", ToString(n), " attempts: ">> \o e
UnwrapOr(opt, d) == IF opt = None THEN d ELSE opt[1]

IsLastAttempt_Never(a) == FALSE

\* line 65
IsLastAttempt(a) == a = MAX_ATTEMPTS

\* process_task lines 57-70 up to the call of prompt_for_fix (lines 98-104)
Classify ==
    /\ pc = "classify"
    /\ IF result.success
       THEN /\ result_msg' = SuccessMsg(result.output)
            /\ pc' = "cleanup"
            /\ UNCHANGED <<result, error_msg, promptVars, repairCalls>>
       ELSE /\ error_msg' = UnwrapOr(result.error, <<"Unknown error">>)
            /\ IF IsLastAttempt(attempt)
               THEN /\ result_msg' = ExhaustedMsg(MAX_ATTEMPTS, error_msg')
                    /\ pc' = "cleanup"
                    /\ UNCHANGED <<result, promptVars, repairCalls>>
               ELSE /\ pc' = "prompt"
                    /\ repairCalls' = repairCalls + 1
                    /\ fixed_code' = <<>>
                    /\ lastInput' = NoInput
                    /\ linesRead' = 0
                    /\ contentSeen' = FALSE
                    /\ result' = NoResult      \* moved out of by line 62
                    /\ UNCHANGED result_msg
    /\ lastLog' = NoLog
    /\ UNCHANGED <<env, fs, attempt, filename, code, ret, mainVars, eof,
                   execCount, genCalls, cleanupCalls, failures, startText, fatal>>

\* a line that carries source text: not blank, not dropped by line 114, and
\* something is left of it once the prompt decoration is stripped
HasContent(line) ==
    LET t == Trim(line) IN Accepted(t) /\ Trim(CleanLine(t)) # <<>>

\* one iteration of the loop of prompt_for_fix (lines 105-119), and its
\* return (line 120) when the loop breaks
ReadLine ==
    /\ pc = "prompt"
    /\ \/ \E inp \in {EndOfFile} \cup
                     (IF eof \/ linesRead >= MaxLines THEN {}
                      ELSE {Line(l) : l \in InputLines}) :
            LET line == LineBuf(inp)
            IN /\ eof' = (inp.kind = "eof")
               /\ lastInput' = InputKind(inp)
               /\ linesRead' = IF inp.kind = "line" THEN linesRead + 1 ELSE linesRead
               /\ IF LoopBreaks(line, fixed_code)
                  THEN /\ code' = Trim(fixed_code)
                       /\ pc' = "save"
                       /\ UNCHANGED <<fixed_code, contentSeen>>
                  ELSE /\ fixed_code' = Accumulate(fixed_code, line)
                       /\ contentSeen' = (contentSeen \/ HasContent(line))
                       /\ UNCHANGED <<code, pc>>
               /\ UNCHANGED <<ret, fatal, result, error_msg, result_msg>>
       \/ /\ Fail("prompt_for_fix", "stdin/stdout")
          /\ UNCHANGED eof
    /\ UNCHANGED <<env, fs, attempt, filename, mainVars, counters, lastLog,
                   startText>>

SaveCode_NoIncrement ==
    /\ pc = "save"
    /\ fs' = WriteFile(Aged(fs), get_filename(language, goal), code)
    /\ filename' = get_filename(language, goal)
    /\ attempt' = attempt /\ pc' = "exec"
    /\ fixed_code' = <<>> /\ lastInput' = NoInput /\ linesRead' = 0
    /\ contentSeen' = FALSE /\ error_msg' = <<>>
    /\ UNCHANGED <<ret, fatal, code, result, result_msg>>
    /\ UNCHANGED <<env, mainVars, eof, counters, lastLog, startText>>

SaveCode_NoWrite ==
    /\ pc = "save"
    /\ fs' = Aged(fs)
    /\ filename' = get_filename(language, goal)
    /\ IF attempt < MAX_ATTEMPTS
       THEN attempt' = attempt + 1 /\ pc' = "exec"
       ELSE attempt' = attempt /\ pc' = "cleanup"
    /\ fixed_code' = <<>> /\ lastInput' = NoInput /\ linesRead' = 0
    /\ contentSeen' = FALSE /\ error_msg' = <<>>
    /\ UNCHANGED <<ret, fatal, code, result, result_msg>>
    /\ UNCHANGED <<env, mainVars, eof, counters, lastLog, startText>>

\* process_task line 71 (save_code, lines 134-143) and the loop increment.
\* The locals of the finished prompt_for_fix call and error_msg are dead.
SaveCode ==
    /\ pc = "save"
    /\ \/ /\ fs' = WriteFile(Aged(fs), get_filename(language, goal), code)
          /\ filename' = get_filename(language, goal)
          /\ IF attempt < MAX_ATTEMPTS
             THEN attempt' = attempt + 1 /\ pc' = "exec"
             ELSE attempt' = attempt /\ pc' = "cleanup"
          /\ fixed_code' = <<>> /\ lastInput' = NoInput /\ linesRead' = 0
          /\ contentSeen' = FALSE /\ error_msg' = <<>>
          /\ UNCHANGED <<ret, fatal, code, result, result_msg>>
       \/ /\ Fail("save_code", "fs::write")
          /\ UNCHANGED <<fs, filename, attempt>>
    /\ UNCHANGED <<env, mainVars, eof, counters, lastLog, startText>>

Cleanup_Skipped ==
    /\ pc = "cleanup"
    /\ ret' = OkVal(result_msg)
    /\ pc' = "returned"
    /\ DropLocals
    /\ UNCHANGED <<env, fs, attempt, filename, mainVars, eof, counters,
                   lastLog, startText, fatal>>

\* process_task lines 74-75
Cleanup ==
    /\ pc = "cleanup"
    /\ cleanupCalls' = cleanupCalls + 1
    /\ \E c \in cleanup(fs, language, goal) :
         /\ fs' = c.fs
         /\ IF c.ret.ok
            THEN /\ ret' = OkVal(result_msg)
                 /\ pc' = "returned"
                 /\ DropLocals
                 /\ UNCHANGED fatal
            ELSE Fail("cleanup", c.ret.why)
    /\ UNCHANGED <<env, attempt, filename, mainVars, eof, execCount, genCalls,
                   repairCalls, failures, lastLog, startText>>

\* main lines 424-427
MainReturn ==
    /\ pc = "returned"
    /\ pc' = "exited"
    /\ IF ret.ok
       THEN printed' = Some(ret.val) /\ exitCode' = 0
       ELSE printed' = None /\ exitCode' = 1
    /\ UNCHANGED <<env, fs, attempt, filename, code, result, error_msg,
                   result_msg, ret, eof, promptVars, counters, lastLog,
                   startText, fatal>>

\* the program is invoked again for the same Task; project_dir persists, the
\* --debug flag and the state of the toolchain may differ
Restart ==
    /\ pc = "exited"
    /\ debug' \in BOOLEAN
    /\ genGood' \in BOOLEAN
    /\ fs' = Aged(fs)
    /\ pc' = "new"
    /\ attempt' = 1
    /\ filename' = get_filename(language, goal)
    /\ code' = <<>>
    /\ result' = NoResult
    /\ error_msg' = <<>>
    /\ result_msg' = <<>>
    /\ fixed_code' = <<>>
    /\ ret' = NoRet
    /\ exitCode' = -1
    /\ printed' = None
    /\ eof' = FALSE
    /\ lastInput' = NoInput
    /\ linesRead' = 0
    /\ contentSeen' = FALSE
    /\ execCount' = 0 /\ genCalls' = 0 /\ repairCalls' = 0 /\ cleanupCalls' = 0
    /\ failures' = 0
    /\ lastLog' = NoLog
    /\ startText' = None
    /\ fatal' = "none"
    /\ UNCHANGED task

Next ==
    \/ New
    \/ Start
    \/ Execute
    \/ Classify
    \/ ReadLine
    \/ SaveCode
    \/ Cleanup
    \/ MainReturn
    \/ Restart

Spec == Init /\ [][Next]_vars

\* ------------------------------------------------------------ properties
InTask == pc \in {"exec", "classify", "prompt", "save", "cleanup"}
Returned == pc \in {"returned", "exited"}

\* C1: within one process_task, execute_code is called at most 3 times; the
\* attempt number is 1 at the first call, stays in 1..3, numbers the calls
\* (call k is made with attempt = k), and between steps of the Task it
\* either stays or goes up by exactly one.
C1_AttemptBounded ==
    /\ [](/\ attempt \in 1..3
          /\ execCount <= 3
          /\ (pc = "exec" => execCount = attempt - 1)
          /\ (pc \in {"classify", "prompt", "save", "cleanup"} => execCount = attempt))
    /\ [][pc # "exited" => (attempt' = attempt \/ attempt' = attempt + 1)]_vars

C1_Witness == pc = "classify" /\ attempt = 3 /\ execCount = 3

\* the files cleanup is meant to leave none of
Artifacts(f) ==
    {p \in DOMAIN f : \/ p = get_filename(language, goal)
                      \/ p = WithExtension(get_filename(language, goal), "")
                      \/ p.ext = "class"}

IsSuccessMsg(m) == m # <<>> /\ m[1] = "Success! Output: "
IsExhaustedMsg(m) == Len(m) >= 3 /\ m[1] = "Error after " /\ m[2] = "3" /\ m[3] = " attempts: "

\* C2: when every execution attempt of a Task returned a failed outcome and
\* process_task has returned its message after cleanup, there were exactly 3
\* attempts, the message is the exhaustion message, and the workspace holds
\* no source file, no binary and no class file.
C2_AlwaysFailingLeavesNothing ==
    (pc = "returned" /\ ret.ok /\ failures = execCount)
        => (execCount = 3 /\ IsExhaustedMsg(ret.val) /\ Artifacts(fs) = {})

\* C3 as stated: with a supported language and a Source Provider whose text
\* builds and exits 0, a completed process_task made exactly one execution
\* attempt, it succeeded, and the Repair Channel was never called, whatever
\* the workspace held at Start.
C3_AnyWorkspace ==
    (Returned /\ fatal \in {"none", "cleanup"} /\ genGood /\ language \in Supported)
        => (execCount = 1 /\ failures = 0 /\ repairCalls = 0)

\* C3 amended: the same, when no source artifact of the Task existed at
\* Start (an existing artifact is executed in place of the provider's text)
\* and no I/O error ended Start or execute_code: the first outcome is
\* succeeded, no second attempt and no repair request is made.
C3_CorrectCodeOneAttempt ==
    (genGood /\ language \in Supported /\ startText = None
        /\ fatal \in {"none", "cleanup"})
        => /\ pc \notin {"prompt", "save"}
           /\ repairCalls = 0 /\ failures = 0 /\ execCount <= 1
           /\ (pc = "classify" => result.success)
           /\ (pc = "cleanup" => IsSuccessMsg(result_msg))
           /\ (Returned => execCount = 1 /\ genCalls = 1)

C3_Witness ==
    /\ pc = "returned" /\ ret.ok /\ IsSuccessMsg(ret.val)
    /\ genGood /\ language \in Supported /\ startText = None
    /\ execCount = 1 /\ genCalls = 1

\* C4: cleanup is called at most once per process_task; it is called only
\* once a terminal message has been composed, after the last execution
\* attempt; process_task never returns a message without having called it.
C4_CleanupOnceBeforeReturn ==
    /\ cleanupCalls <= 1
    /\ (pc = "cleanup" => cleanupCalls = 0 /\ execCount = attempt
                            /\ (IsSuccessMsg(result_msg) \/ IsExhaustedMsg(result_msg)))
    /\ (cleanupCalls = 1 => Returned)
    /\ (Returned /\ ret.ok => cleanupCalls = 1)
    /\ (Returned /\ fatal = "none" => cleanupCalls = 1 /\ ret.ok)

C4_Witness == pc = "returned" /\ ret.ok /\ cleanupCalls = 1 /\ IsExhaustedMsg(ret.val)

\* C5 as stated: when a removal inside cleanup fails, process_task still
\* returns the composed success or exhaustion message.
C5_CleanupFailureKeepsResult ==
    (Returned /\ fatal = "cleanup")
        => (ret.ok /\ (IsSuccessMsg(ret.val) \/ IsExhaustedMsg(ret.val)))

\* the text the first execution attempt of this process_task is given
FirstText == IF startText # None THEN startText[1] ELSE generate_code(language, goal)

\* C6: an artifact found at Start is kept as it is and the Source Provider is
\* not called; otherwise the provider is called once and its text is
\* written; either way that text is what the first execute_code call runs.
C6_ExistingArtifactReused ==
    /\ genCalls <= 1
    /\ (InTask \/ execCount > 0 => genCalls = (IF startText = None THEN 1 ELSE 0))
    /\ (pc = "exec" /\ execCount = 0
          => fs[get_filename(language, goal)] = FirstText /\ code = FirstText)
    /\ (execCount = 1 /\ lastLog.source # None => lastLog.source = Some(FirstText))

C6_Witness ==
    /\ pc = "classify" /\ attempt = 1 /\ genCalls = 0
    /\ startText # None /\ startText[1] # generate_code(language, goal)
    /\ lastLog.source = startText

\* C7: an I/O error inside execute_code makes process_task return that error
\* in the same step; no cleanup, no further execute_code call and no repair
\* request follows it, and main exits non-zero without printing a message.
C7_ExecIOErrorFatal ==
    /\ [](fatal = "execute_code"
            => /\ Returned /\ ~ret.ok /\ cleanupCalls = 0
               /\ (pc = "exited" => exitCode = 1 /\ printed = None))
    /\ [][pc = "exec" /\ fatal' = "execute_code" => pc' = "returned" /\ ~ret'.ok]_vars
    /\ [][fatal = "execute_code" /\ fatal' = "execute_code"
            => execCount' = execCount /\ repairCalls' = repairCalls]_vars

C7_Witness == pc = "returned" /\ fatal = "execute_code" /\ execCount = 2 /\ repairCalls = 1

\* C8: a run in which no I/O error occurred ends with process_task returning
\* Ok with the success message or the exhaustion message, which main prints
\* before exiting with code 0; an Err is returned only after an I/O error.
C8_RecoverableNeverEscapes ==
    /\ (Returned /\ fatal = "none"
          => ret.ok /\ (IsSuccessMsg(ret.val) \/ IsExhaustedMsg(ret.val)))
    /\ (pc = "exited" /\ fatal = "none" => exitCode = 0 /\ printed = Some(ret.val))
    /\ (pc = "classify" /\ ~result.success => result.error # None)

C8_Witness ==
    /\ pc = "exited" /\ exitCode = 0 /\ failures = 3 /\ fatal = "none"
    /\ language = "cobol" /\ IsExhaustedMsg(printed[1])

\* C9: in prompt_for_fix a blank line ends the loop exactly when a line with
\* non-blank content was accumulated before it; a non-blank line never ends
\* it; so blank and filtered lines alone never end it, and the text returned
\* is never empty.
C9_BlankLineTerminatesIffContent ==
    [][/\ (pc = "prompt" /\ lastInput' = "blank" => ((pc' = "save") <=> contentSeen))
       /\ (pc = "prompt" /\ lastInput' = "text" => pc' = "prompt")
       /\ (pc = "prompt" /\ pc' = "save" => code' # <<>> /\ contentSeen)]_vars

C9_Witness ==
    /\ pc = "prompt" /\ linesRead = MaxLines /\ ~contentSeen /\ fixed_code # <<>>
    /\ lastInput = "blank"

\* C10 as stated: when read_line reports end of input inside the loop of
\* prompt_for_fix, process_task returns an error at once.
C10_EofIsInputClosedError ==
    [][pc = "prompt" /\ lastInput' = "eof" => pc' = "returned" /\ ~ret'.ok]_vars

\* C11: for a Task whose language is not a supported variant, every
\* execute_code call returns the failed outcome with the fixed detail
\* "Unsupported language" (never an error), each call uses up one attempt,
\* the detail is what the repair request is given, and a process_task that
\* got as far as its terminal message made exactly 3 execution attempts and
\* 2 repair requests and composed the exhaustion message with that detail.
C11_UnsupportedConsumesBudget ==
    language \notin Supported =>
      /\ fatal # "execute_code"
      /\ failures = execCount
      /\ (pc = "classify" => ~result.success /\ result.error = Some(<<"Unsupported language">>))
      /\ (pc = "prompt" => error_msg = <<"Unsupported language">> /\ repairCalls = attempt)
      /\ (pc = "cleanup" \/ (Returned /\ fatal \in {"none", "cleanup"})
            => execCount = 3 /\ repairCalls = 2)
      /\ (pc = "cleanup"
            => result_msg = <<"Error after ", "3", " attempts: ", "Unsupported language">>)
      /\ (Returned /\ ret.ok
            => ret.val = <<"Error after ", "3", " attempts: ", "Unsupported language">>)

C11_Witness ==
    /\ pc = "returned" /\ ret.ok /\ language = "cobol"
    /\ execCount = 3 /\ repairCalls = 2 /\ failures = 3

\* C12: a failed outcome at an attempt below MAX_ATTEMPTS makes exactly one
\* repair request, given the text now in the source artifact and the error
\* detail of that outcome; the text the request returns overwrites the source
\* artifact; the attempt number then goes up by one and the next
\* execute_code call runs exactly that text.
C12_RepairThenRetry ==
    /\ [](/\ (pc \in {"prompt", "save"} => repairCalls = attempt /\ attempt < 3)
          /\ (pc = "prompt" => code = fs[filename])
          /\ (pc = "exec" => repairCalls = attempt - 1 /\ fs[filename] = code))
    /\ [][pc = "classify" /\ ~result.success /\ attempt < 3
            => /\ pc' = "prompt"
               /\ repairCalls' = repairCalls + 1
               /\ code' = code /\ code = fs[filename]
               /\ error_msg' = (IF result.error = None THEN <<"Unknown error">>
                                ELSE result.error[1])]_vars
    /\ [][pc = "prompt" /\ pc' = "save"
            => code' = Trim(fixed_code) /\ repairCalls' = repairCalls]_vars
    /\ [][pc = "save" /\ pc' # "returned"
            => /\ pc' = "exec" /\ attempt' = attempt + 1
               /\ fs'[filename] = code /\ code' = code
               /\ repairCalls' = repairCalls]_vars
    /\ [][pc = "exec" /\ attempt > 1 => lastLog'.source = Some(code)]_vars

C12_Witness ==
    /\ pc = "classify" /\ attempt = 3 /\ repairCalls = 2
    /\ lastLog.source = Some(code) /\ code = <<"a">>

\* C13: a failed outcome at attempt 3 ends the loop: no repair request is
\* made for it (so at most 2 per process_task) and no further execute_code
\* call; the message composed is "Error after 3 attempts: " followed by the
\* error detail of that very outcome, or by "Unknown error" when the outcome
\* carries none, and it is what process_task returns after cleanup.
C13_LastFailureTerminal ==
    /\ [](/\ repairCalls <= 2
          /\ (Returned /\ ret.ok /\ failures = execCount
                => IsExhaustedMsg(ret.val) /\ ret.val # <<>>))
    /\ [][pc = "classify" /\ ~result.success /\ attempt = 3
            => /\ pc' = "cleanup"
               /\ repairCalls' = repairCalls /\ execCount' = execCount
               /\ result_msg' # <<>>
               /\ result_msg' = <<"Error after ", "3", " attempts: ">>
                                  \o (IF result.error = None THEN <<"Unknown error">>
                                      ELSE result.error[1])]_vars
    /\ [][pc = "cleanup" /\ pc' = "returned" /\ ret'.ok
            => ret'.val = result_msg /\ execCount' = execCount
               /\ repairCalls' = repairCalls]_vars

C13_Witness ==
    /\ pc = "cleanup" /\ attempt = 3 /\ repairCalls = 2 /\ language = "python"
    /\ result.error = Some(<<"e2">>)
    /\ result_msg = <<"Error after ", "3", " attempts: ", "e2">>

\* C14: a succeeded outcome at attempt 1, 2 or 3 ends the loop: no repair
\* request and no further execute_code call follows it; the message composed
\* is "Success! Output: " followed by the standard output of that very
\* attempt, and it is what process_task returns after cleanup.
C14_SuccessTerminal ==
    /\ [](/\ (pc = "cleanup" /\ result.success
                => result_msg = <<"Success! Output: ">> \o result.output
                   /\ execCount = failures + 1 /\ repairCalls = failures)
          /\ (Returned /\ ret.ok /\ failures < execCount
                => IsSuccessMsg(ret.val) /\ Tail(ret.val) \in StdOuts
                   /\ execCount = failures + 1 /\ repairCalls = failures))
    /\ [][pc = "classify" /\ result.success
            => /\ pc' = "cleanup"
               /\ repairCalls' = repairCalls /\ execCount' = execCount
               /\ attempt' = attempt
               /\ result_msg' = <<"Success! Output: ">> \o result.output]_vars
    /\ [][pc = "cleanup" /\ result.success
            => pc' = "returned" /\ execCount' = execCount
               /\ repairCalls' = repairCalls
               /\ (ret'.ok => ret'.val = result_msg)]_vars

C14_Witness ==
    /\ pc = "cleanup" /\ attempt = 3 /\ result.success /\ failures = 2
    /\ result_msg = <<"Success! Output: ", "o2">>

\* the variants with a compile step, and the file that step is to write
Compiled == Native \cup {"java"}
ArtifactPath ==
    IF language = "java" THEN class_file
    ELSE WithExtension(get_filename(language, goal), "")

\* C15: in the rust, cpp and java variants, when the compiler exits with a
\* failure status, execute_code returns the failed outcome whose error detail
\* is the compiler's stderr and whose output is empty, and no run subprocess
\* was started in that call.
C15_CompileFailureNoRun ==
    /\ (lastLog.compiled => language \in Compiled)
    /\ (lastLog.compiled /\ ~lastLog.compileOk /\ lastLog.stderr # None
          => /\ pc = "classify"
             /\ ~result.success /\ result.output = <<>>
             /\ result.error = lastLog.stderr
             /\ ~lastLog.ran /\ lastLog.artifact = None)

C15_Witness ==
    /\ pc = "classify" /\ language = "java" /\ attempt = 2
    /\ lastLog.compiled /\ ~lastLog.compileOk /\ lastLog.stderr = Some(<<"e2">>)
    /\ result.error = Some(<<"e2">>)

\* C16: in the compiled variants the artifact a call of execute_code runs
\* was written by the compile step of that same call; an artifact found
\* before compiling is removed first, so after the compile step the artifact
\* is either absent or the one just built, and after a compiler failure or a
\* compile that wrote nothing it is absent and nothing is run.
C16_StaleArtifactGuard ==
    /\ [](language \in Compiled /\ lastLog.ran
            => lastLog.compileOk /\ lastLog.artifact = Some(Built(attempt)))
    /\ [][pc = "exec" /\ language \in Compiled /\ lastLog'.compiled
            => /\ (Exists(fs, ArtifactPath) => lastLog'.removed)
               /\ (Exists(fs', ArtifactPath) => fs'[ArtifactPath] = Built(attempt))
               /\ (lastLog'.ran => Exists(fs', ArtifactPath))
               /\ (~lastLog'.compileOk => ~Exists(fs', ArtifactPath))]_vars

C16_Witness ==
    /\ pc = "classify" /\ language = "rust" /\ attempt = 2
    /\ lastLog.removed /\ lastLog.compileOk /\ ~lastLog.ran
    /\ ~Exists(fs, ArtifactPath)

\* C17: in the compiled variants, when the compiler exits with status 0 and
\* the expected artifact is not there, execute_code returns the failed
\* outcome whose error detail names the expected path and starts no run
\* subprocess; the absence itself is never returned as an error (only the
\* current_dir query of --debug can fail there), and below attempt 3 the
\* outcome leads to a repair request.
C17_MissingArtifactRecoverable ==
    /\ [](lastLog.compileOk /\ ~Exists(fs, ArtifactPath)
            => /\ ~lastLog.ran
               /\ \/ /\ pc = "classify"
                     /\ ~result.success /\ result.output = <<>>
                     /\ result.error =
                          Some(<<IF language = "java" THEN "Class file not created at "
                                 ELSE "Binary not created at ">> \o PathStr(ArtifactPath))
                  \/ /\ fatal = "execute_code" /\ ret = ErrVal("current_dir")
                     /\ debug /\ language \in Native)
    /\ [][pc = "classify" /\ lastLog.compileOk /\ ~Exists(fs, ArtifactPath)
            => IF attempt < 3 THEN pc' = "prompt" /\ repairCalls' = repairCalls + 1
               ELSE pc' = "cleanup"]_vars

C17_Witness ==
    /\ pc = "classify" /\ language = "java" /\ attempt = 1
    /\ lastLog.compileOk /\ ~Exists(fs, class_file) /\ ~lastLog.ran
    /\ Exists(fs, OtherClassFile)

\* C18: for a language that is not a supported variant, a call of
\* execute_code returns the failed outcome "Unsupported language" at once:
\* the workspace is left as it was, nothing is removed or created, and no
\* compiler or run subprocess is started.
C18_UnsupportedTouchesNothing ==
    [][pc = "exec" /\ language \notin Supported
         => /\ fs' = fs
            /\ pc' = "classify"
            /\ result' = ExecutionResult(FALSE, <<>>, Some(<<"Unsupported language">>))
            /\ ~lastLog'.removed /\ ~lastLog'.compiled /\ ~lastLog'.ran
            /\ lastLog'.artifact = None]_vars

C18_Witness ==
    /\ pc = "classify" /\ language = "cobol" /\ attempt = 2
    /\ DOMAIN fs = {get_filename(language, goal)}
    /\ result.error = Some(<<"Unsupported language">>)

\* C19 as stated: whenever process_task has ended with an error of
\* execute_code, prompt_for_fix or save_code, cleanup was not called and the
\* Task's source artifact is in the workspace.
C19_AnyFatalLeavesSource ==
    fatal \in {"execute_code", "prompt_for_fix", "save_code"}
        => cleanupCalls = 0 /\ Exists(fs, get_filename(language, goal))

\* an error of execute_code, of prompt_for_fix, or of the save_code call of
\* the repair loop (line 71) ended process_task
LoopFatal ==
    \/ fatal \in {"execute_code", "prompt_for_fix"}
    \/ fatal = "save_code" /\ execCount > 0

\* C19 amended: the same for an error of execute_code, of prompt_for_fix or
\* of the save_code call inside the repair loop (when the save_code call at
\* Start fails, no artifact was written).  The artifact is still there when
\* the program is started again; the next process_task then does not call
\* the Source Provider, leaves the artifact as it is, and its first
\* execute_code call runs the text found.
C19_FatalLeavesSource ==
    /\ [](LoopFatal => /\ Returned /\ ~ret.ok /\ cleanupCalls = 0
                       /\ Exists(fs, get_filename(language, goal)))
    /\ [][LoopFatal /\ pc = "exited"
            => /\ pc' = "new"
               /\ Exists(fs', get_filename(language, goal))
               /\ fs'[get_filename(language, goal)] = fs[get_filename(language, goal)]]_vars
    /\ [][pc = "new" => fs' = fs]_vars
    /\ [][pc = "start" /\ Exists(fs, get_filename(language, goal)) /\ pc' = "exec"
            => /\ genCalls' = 0 /\ attempt' = 1 /\ execCount' = 0
               /\ fs' = fs
               /\ code' = fs[get_filename(language, goal)]
               /\ startText' = Some(fs[get_filename(language, goal)])]_vars
    /\ [][pc = "exec" /\ execCount = 0
            => lastLog'.source = Some(fs[get_filename(language, goal)])]_vars

C19_Witness ==
    /\ pc = "exited" /\ fatal = "prompt_for_fix" /\ execCount = 2 /\ cleanupCalls = 0
    /\ Exists(fs, get_filename(language, goal))
    /\ fs[get_filename(language, goal)] = <<"a">>

\* a measure of what is left of process_task: the attempts not yet started,
\* then the position inside the current iteration of the loop of line 55
Rank ==
    CASE pc = "start" -> 4 * MAX_ATTEMPTS + 5
      [] pc = "exec" -> 4 * (MAX_ATTEMPTS + 1 - attempt) + 4
      [] pc = "classify" -> 4 * (MAX_ATTEMPTS + 1 - attempt) + 3
      [] pc = "prompt" -> 4 * (MAX_ATTEMPTS + 1 - attempt) + 2
      [] pc = "save" -> 4 * (MAX_ATTEMPTS + 1 - attempt) + 1
      [] pc = "cleanup" -> 1
      [] OTHER -> 0

\* C20: process_task terminates when every subprocess exits and every
\* prompt_for_fix call returns: each of its steps, other than one more line
\* read inside prompt_for_fix, strictly lowers a measure that is never
\* negative, so only finitely many follow one another before it returns (a
\* message or an error); it makes at most 3 execute_code calls and at most 2
\* repair requests, and lines 45-52 are entered from the call only, never
\* from the loop.
C20_ProcessTaskTerminates ==
    /\ [](execCount <= 3 /\ repairCalls <= 2 /\ Rank >= 0)
    /\ [][pc' = "start" => pc = "new"]_vars
    /\ [][InTask => (InTask \/ pc = "returned")']_vars
    /\ [][(pc = "start" \/ InTask) /\ ~(pc = "prompt" /\ pc' = "prompt")
            => Rank' < Rank]_vars

C20_Witness ==
    /\ pc = "returned" /\ execCount = 3 /\ repairCalls = 2
    /\ startText # None /\ language = "cpp" /\ ret.ok
====
